---- MODULE Spec2Model ----
(***************************************************************************)
(* A model of netgraph's layout engine (src/netgraph/_layout.py):          *)
(*   - _get_connected_components / _dfs           (component discovery),   *)
(*   - _get_component_bboxes / _rescale_bboxes_to_canvas (box packing),    *)
(*   - get_layout_for_multiple_components         (composition),           *)
(*   - get_fruchterman_reingold_layout            (force-directed layout). *)
(* Nodes are small integers.  Real numbers are exact rationals <<n, d>>    *)
(* with d > 0; <<0, 0>> stands for the floating-point NaN.                 *)
(***************************************************************************)
EXTENDS Integers, Sequences, FiniteSets, TLC

\* ------------------------------------------------------------------ bounds

\* Node identifiers of the exhaustively enumerated adjacency lists: 0 .. NumNodes-1.
NumNodes == 3

Nodes == 0 .. (NumNodes - 1)

\* ------------------------------------------------------------------ state

VARIABLES
    adjacency_list,   \* dict node -> set of nodes, the argument of _get_connected_components
    not_visited,      \* set of keys not yet assigned to a component
    components,       \* list of sets of nodes
    visited,          \* the set shared by all frames of one _dfs call tree
    stack,            \* call stack of _dfs: frames [start, todo], todo = rest of the for loop
    pc,               \* control location
    edge_list,        \* list of (source, target) pairs
    unconnected_nodes,\* None or a list of nodes
    origin,           \* (x, y) of the canvas
    scale,            \* (width, height) of the canvas
    pad_by,           \* padding factor of _get_component_bboxes
    bboxes,           \* list of (x, y, w, h), one per component
    node_positions,   \* dict node -> (x, y), the result being built
    ii,               \* index of the component being placed
    layout_calls,     \* indices of the components handed to component_layout_function
    written,          \* history: the keys each finished iteration of the loop wrote
    fr_edge_list,     \* get_fruchterman_reingold_layout: edge_list
    fr_origin,        \* ... origin: None or (x, y)
    fr_scale,         \* ... scale: None or (width, height)
    fr_node_positions,\* ... node_positions: None or a dict, as the list of its (key, value) items
    fixed_nodes,      \* ... fixed_nodes: None or a collection of nodes
    node_size,        \* ... node_size: None, a number or a dict; an array after the set-up
    k,                \* ... k: None or a number
    unique_nodes,     \* list of nodes, row i of the arrays belongs to unique_nodes[i]
    node_positions_as_array, \* (n, 2) array
    is_mobile,        \* (n,) array of booleans
    adjacency,        \* (n, n) array
    temperatures,     \* the temperature of each iteration
    it,               \* number of iterations of the main loop done
    fr_result,        \* the dict returned by get_fruchterman_reingold_layout
    td_initial_temperature, \* _get_temperature_decay called alone: initial_temperature
    td_total_iterations,    \* ... total_iterations
    td_mode                 \* ... mode

ccVars == <<adjacency_list, not_visited, components, visited, stack>>

bbVars == <<origin, scale, pad_by, bboxes>>

mcVars == <<edge_list, unconnected_nodes, node_positions, ii, layout_calls, written>>

frArgs == <<fr_edge_list, fr_origin, fr_scale, fr_node_positions, fixed_nodes, node_size, k>>

frLocals == <<unique_nodes, node_positions_as_array, is_mobile, adjacency, temperatures, it,
              fr_result>>

frVars == <<frArgs, frLocals>>

tdVars == <<td_initial_temperature, td_total_iterations, td_mode>>

vars == <<ccVars, bbVars, mcVars, frVars, tdVars, pc>>

\* An argument that may be None: None is the empty tuple, a given value v is << v >>.
None == << >>

Some(v) == << v >>

Val(x) == x[1]

\* ------------------------------------------------------------------ helpers

Keys(d) == DOMAIN d

Last(s) == s[Len(s)]

ButLast(s) == SubSeq(s, 1, Len(s) - 1)

\* sorted(components, key=len, reverse=True): stable, so equal sizes keep their order.
RECURSIVE InsertByLen(_, _)
InsertByLen(sorted, c) ==
    IF sorted = << >> THEN << c >>
    ELSE IF Cardinality(Last(sorted)) >= Cardinality(c)
         THEN Append(sorted, c)
         ELSE Append(InsertByLen(ButLast(sorted), c), Last(sorted))

RECURSIVE SortByLenLoop(_, _)
SortByLenLoop(done, rest) ==
    IF rest = << >> THEN done
    ELSE SortByLenLoop(InsertByLen(done, Head(rest)), Tail(rest))

\* Mutant of SortedByLenReversed: the components are returned in discovery order.
SortedByLenReversed_unsorted(cs) == cs

SortedByLenReversed(cs) == SortByLenLoop(<< >>, cs)

\* ------------------------------------------------------------------ inputs

\* Every adjacency list over Nodes: any key set, any neighbour sets (self loops,
\* one-directional entries and neighbours without an entry of their own included).
AllAdjacencyLists == UNION { [ks -> SUBSET Nodes] : ks \in SUBSET Nodes }

Triangle(a) == (a :> {a + 1, a + 2}) @@ (a + 1 :> {a, a + 2}) @@ (a + 2 :> {a, a + 1})

Pair(a) == (a :> {a + 1}) @@ (a + 1 :> {a})

TwoTriangles == Triangle(0) @@ Triangle(3)

ThreeTrianglesAndPair == Pair(0) @@ Triangle(2) @@ Triangle(5) @@ Triangle(8)

\* The deepest nesting of _dfs calls that the interpreter allows
\* (sys.getrecursionlimit(), 1000 by default), scaled to the graphs of the model.
RecursionLimit == 3

\* The path 0 - 1 - ... - (n - 1), every edge in both directions.
Path(n) == [i \in 0 .. (n - 1) |-> {i - 1, i + 1} \cap (0 .. (n - 1))]

ExampleAdjacencyLists == { TwoTriangles, ThreeTrianglesAndPair, Path(RecursionLimit + 1) }

\* ------------------------------------------------------------------ _get_connected_components

\* State on entry of _get_connected_components(adj).
EnterComponents(adj) ==
    /\ adjacency_list = adj
    /\ components = << >>
    /\ not_visited = Keys(adj)
    /\ visited = {}
    /\ stack = << >>

\* The variables of the callers, while _get_connected_components is checked alone.
IdleBB == origin = None /\ scale = None /\ pad_by = None /\ bboxes = << >>

IdleMC ==
    /\ edge_list = << >>
    /\ unconnected_nodes = None
    /\ node_positions = << >>
    /\ ii = 0
    /\ layout_calls = {}
    /\ written = << >>

IdleTD == td_initial_temperature = None /\ td_total_iterations = None /\ td_mode = None

IdleFR ==
    /\ fr_edge_list = << >>
    /\ fr_origin = None
    /\ fr_scale = None
    /\ fr_node_positions = None
    /\ fixed_nodes = None
    /\ node_size = None
    /\ k = None
    /\ unique_nodes = << >>
    /\ node_positions_as_array = << >>
    /\ is_mobile = << >>
    /\ adjacency = << >>
    /\ temperatures = << >>
    /\ it = 0
    /\ fr_result = << >>

InitCC ==
    /\ \E adj \in AllAdjacencyLists \cup ExampleAdjacencyLists : EnterComponents(adj)
    /\ pc = "loop"
    /\ IdleBB
    /\ IdleMC
    /\ IdleFR
    /\ IdleTD

\* Mutant of DfsTodo: only the outermost _dfs call iterates over its neighbours.
DfsTodo_no_recursion(start, vis) ==
    IF vis = {start} THEN adjacency_list[start] \ vis ELSE {}

\* The neighbours the for loop of a new _dfs frame iterates over: adjacency_list[start] - visited.
DfsTodo(start, vis) == adjacency_list[start] \ vis

\* while not_visited: start = not_visited.pop(); component = _dfs(adjacency_list, start)
PopStart ==
    /\ pc = "loop"
    /\ not_visited # {}
    /\ \E start \in not_visited :
        /\ not_visited' = not_visited \ {start}
        /\ visited' = {start}
        /\ stack' = << [start |-> start, todo |-> DfsTodo(start, {start})] >>
    /\ pc' = "dfs"
    /\ UNCHANGED <<adjacency_list, components>>
    /\ UNCHANGED <<bbVars, mcVars, frVars, tdVars>>

\* for node in ...: if node in adjacency_list: _dfs(adjacency_list, node, visited)
DfsDescend ==
    /\ pc = "dfs"
    /\ Len(stack) < RecursionLimit
    /\ \E node \in Last(stack).todo :
        /\ node \in Keys(adjacency_list)
        /\ visited' = visited \cup {node}
        /\ stack' = Append(
              [stack EXCEPT ![Len(stack)].todo = @ \ {node}],
              [start |-> node, todo |-> DfsTodo(node, visited \cup {node})])
    /\ UNCHANGED <<adjacency_list, not_visited, components, pc>>
    /\ UNCHANGED <<bbVars, mcVars, frVars, tdVars>>

\* for node in ...: else: visited.add(node)
DfsLeaf ==
    /\ pc = "dfs"
    /\ \E node \in Last(stack).todo :
        /\ node \notin Keys(adjacency_list)
        /\ visited' = visited \cup {node}
        /\ stack' = [stack EXCEPT ![Len(stack)].todo = @ \ {node}]
    /\ UNCHANGED <<adjacency_list, not_visited, components, pc>>
    /\ UNCHANGED <<bbVars, mcVars, frVars, tdVars>>

\* _dfs(adjacency_list, node, visited) when the calls are nested as deep as the
\* interpreter allows: RecursionError, which nothing catches.
DfsRecursionError ==
    /\ pc = "dfs"
    /\ Len(stack) >= RecursionLimit
    /\ \E node \in Last(stack).todo : node \in Keys(adjacency_list)
    /\ pc' = "RecursionError"
    /\ UNCHANGED <<ccVars, bbVars, mcVars, frVars, tdVars>>

\* return visited, from a recursive call
DfsReturn ==
    /\ pc = "dfs"
    /\ Len(stack) > 1
    /\ Last(stack).todo = {}
    /\ stack' = ButLast(stack)
    /\ UNCHANGED <<adjacency_list, not_visited, components, visited, pc>>
    /\ UNCHANGED <<bbVars, mcVars, frVars, tdVars>>

\* return visited, from the outermost call; components.append(component);
\* then every node of the component is removed from not_visited (KeyError ignored).
CollectComponent ==
    /\ pc = "dfs"
    /\ Len(stack) = 1
    /\ Last(stack).todo = {}
    /\ stack' = << >>
    /\ components' = Append(components, visited)
    /\ not_visited' = not_visited \ visited
    /\ pc' = "loop"
    /\ UNCHANGED <<adjacency_list, visited>>
    /\ UNCHANGED <<bbVars, mcVars, frVars, tdVars>>

\* components = sorted(components, key=len, reverse=True); return components
SortComponents ==
    /\ pc = "loop"
    /\ not_visited = {}
    /\ components' = SortedByLenReversed(components)
    /\ pc' = "sorted"
    /\ UNCHANGED <<adjacency_list, not_visited, visited, stack>>
    /\ UNCHANGED <<bbVars, mcVars, frVars, tdVars>>

NextCC ==
    \/ PopStart
    \/ DfsDescend
    \/ DfsLeaf
    \/ DfsRecursionError
    \/ DfsReturn
    \/ CollectComponent
    \/ SortComponents

SpecCC == InitCC /\ [][NextCC]_vars

\* ------------------------------------------------------------------ claims C1-C3

Union(cs) == UNION { cs[i] : i \in DOMAIN cs }

PairwiseDisjoint(cs) ==
    \A i, j \in DOMAIN cs : i # j => cs[i] \cap cs[j] = {}

\* Every neighbour is a key, and u in adj[v] whenever v in adj[u].
SymmetricClosed(adj) ==
    \A u \in Keys(adj) : \A v \in adj[u] : v \in Keys(adj) /\ u \in adj[v]

\* The nodes reachable from the set S along entries of adj (least fixed point).
RECURSIVE ReachableFrom(_, _)
ReachableFrom(adj, S) ==
    LET step == S \cup UNION { adj[u] : u \in S \cap Keys(adj) }
    IN  IF step = S THEN S ELSE ReachableFrom(adj, step)

SameComponent(u, v) == \E i \in DOMAIN components : u \in components[i] /\ v \in components[i]

\* C1: the sets returned by _get_connected_components partition exactly the key
\* set of the adjacency list: their union is the key set and no node is in two sets.
C1_PartitionOfKeys ==
    pc = "sorted" =>
        /\ Union(components) = Keys(adjacency_list)
        /\ PairwiseDisjoint(components)

\* C2: for a symmetric adjacency list whose neighbours are all keys, two nodes
\* are in the same returned set iff one is reachable from the other; two disjoint
\* triangles give exactly 2 sets of size 3.
C2_MaximalConnected ==
    (pc = "sorted" /\ SymmetricClosed(adjacency_list)) =>
        /\ \A u, v \in Keys(adjacency_list) :
              SameComponent(u, v) <=> v \in ReachableFrom(adjacency_list, {u})
        /\ adjacency_list = TwoTriangles =>
              /\ Len(components) = 2
              /\ \A i \in DOMAIN components : Cardinality(components[i]) = 3

C2_Witness ==
    /\ pc = "sorted"
    /\ adjacency_list = TwoTriangles
    /\ components \in { << {0, 1, 2}, {3, 4, 5} >>, << {3, 4, 5}, {0, 1, 2} >> }

\* C3: the returned list is in descending order of size; with three triangles and
\* a pair, the pair comes last whatever the discovery order.
C3_DescendingSize ==
    pc = "sorted" =>
        /\ \A i \in 1 .. (Len(components) - 1) :
              Cardinality(components[i]) >= Cardinality(components[i + 1])
        /\ adjacency_list = ThreeTrianglesAndPair =>
              /\ Len(components) = 4
              /\ components[4] = {0, 1}

C3_Witness ==
    /\ pc = "sorted"
    /\ adjacency_list = ThreeTrianglesAndPair
    /\ Cardinality(components[1]) = 3
    /\ components[4] = {0, 1}

\* ------------------------------------------------------------------ real numbers

RECURSIVE GCD(_, _)
GCD(a, b) == IF b = 0 THEN a ELSE GCD(b, a % b)

Abs(a) == IF a < 0 THEN -a ELSE a

NaN == <<0, 0>>

IsNaN(r) == r[2] = 0

\* The rational n / d in lowest terms; 0 / 0 is NaN, as in numpy.
Rat(n, d) ==
    IF d = 0 THEN NaN
    ELSE LET g == GCD(Abs(n), Abs(d))
             sgn == IF d < 0 THEN -1 ELSE 1
         IN  << sgn * (n \div g), sgn * (d \div g) >>

RI(n) == <<n, 1>>

\* The sum over the least common denominator.
RAdd(a, b) ==
    IF IsNaN(a) \/ IsNaN(b) THEN NaN
    ELSE LET g == GCD(a[2], b[2])
         IN  Rat(a[1] * (b[2] \div g) + b[1] * (a[2] \div g), (a[2] \div g) * b[2])

RSub(a, b) == RAdd(a, << -b[1], b[2] >>)

\* The product, common factors cancelled first.
RMul(a, b) ==
    IF IsNaN(a) \/ IsNaN(b) THEN NaN
    ELSE LET g == GCD(Abs(a[1]), b[2])
             h == GCD(Abs(b[1]), a[2])
         IN  Rat((a[1] \div g) * (b[1] \div h), (a[2] \div h) * (b[2] \div g))

RDiv(a, b) ==
    IF IsNaN(a) \/ IsNaN(b) \/ b[1] = 0 THEN NaN
    ELSE RMul(a, IF b[1] < 0 THEN << -b[2], -b[1] >> ELSE << b[2], b[1] >>)

\* Comparisons with NaN are false, as in IEEE arithmetic.
RLe(a, b) == ~IsNaN(a) /\ ~IsNaN(b) /\ a[1] * b[2] <= b[1] * a[2]

RLt(a, b) == ~IsNaN(a) /\ ~IsNaN(b) /\ a[1] * b[2] < b[1] * a[2]

\* int(x) for x >= 0
RInt(a) == a[1] \div a[2]

\* np.min / np.max over a non-empty list of numbers; a NaN in the list gives NaN
RECURSIVE RMinOf(_)
RMinOf(xs) ==
    IF Len(xs) = 1 THEN xs[1]
    ELSE LET m == RMinOf(Tail(xs))
         IN  IF IsNaN(xs[1]) \/ IsNaN(m) THEN NaN ELSE IF RLe(xs[1], m) THEN xs[1] ELSE m

RECURSIVE RMaxOf(_)
RMaxOf(xs) ==
    IF Len(xs) = 1 THEN xs[1]
    ELSE LET m == RMaxOf(Tail(xs))
         IN  IF IsNaN(xs[1]) \/ IsNaN(m) THEN NaN ELSE IF RLe(m, xs[1]) THEN xs[1] ELSE m

RECURSIVE RSumOf(_)
RSumOf(xs) == IF xs = << >> THEN RI(0) ELSE RAdd(xs[1], RSumOf(Tail(xs)))

RNeg(a) == IF IsNaN(a) THEN NaN ELSE << -a[1], a[2] >>

\* The least integer s in lo .. hi with s * s >= m (hi * hi >= m).
RECURSIVE ISqrtSearch(_, _, _)
ISqrtSearch(m, lo, hi) ==
    IF lo >= hi THEN hi
    ELSE LET mid == (lo + hi) \div 2
         IN  IF mid * mid >= m THEN ISqrtSearch(m, lo, mid) ELSE ISqrtSearch(m, mid + 1, hi)

ISqrtUp(m) == ISqrtSearch(m, 0, 46340)

\* The least whole number that is at least a, for a >= 0.
RCeil(a) == (a[1] + a[2] - 1) \div a[2]

\* np.sqrt, rounded up: to a whole number from 1 on and to a multiple of 1/8
\* below 1, so that the root of a positive number is positive.
RSqrt(a) ==
    IF IsNaN(a) \/ a[1] < 0 THEN NaN
    ELSE IF a[1] >= a[2] THEN RI(ISqrtUp(RCeil(a)))
    ELSE Rat(ISqrtUp(RCeil(RMul(a, RI(64)))), 8)

\* A number rounded to an integer, away from zero: the result is 0 only for 0.
RoundAway(a) ==
    IF IsNaN(a) THEN NaN
    ELSE IF a[1] >= 0 THEN RI((a[1] + a[2] - 1) \div a[2])
         ELSE RI(-((-a[1] + a[2] - 1) \div a[2]))

\* A number rounded to an integer, towards zero.
RoundToZero(a) ==
    IF IsNaN(a) THEN NaN
    ELSE IF a[1] >= 0 THEN RI(a[1] \div a[2]) ELSE RI(-((-a[1]) \div a[2]))

\* np.linalg.norm of a 2-vector
Norm(v) == RSqrt(RAdd(RMul(v[1], v[1]), RMul(v[2], v[2])))

VAdd(u, v) == << RAdd(u[1], v[1]), RAdd(u[2], v[2]) >>

VSub(u, v) == << RSub(u[1], v[1]), RSub(u[2], v[2]) >>

VScale(v, a) == << RMul(v[1], a), RMul(v[2], a) >>

RECURSIVE VSumOf(_)
VSumOf(vs) == IF vs = << >> THEN << RI(0), RI(0) >> ELSE VAdd(vs[1], VSumOf(Tail(vs)))

Column(rows, c) == [i \in DOMAIN rows |-> rows[i][c]]

\* ------------------------------------------------------------------ _get_component_bboxes

\* Largest component handed to the box packer.
MaxComponentSize == 3

\* Largest number of components handed to the box packer on its own.
MaxComponents == 3

scalar == 10

\* n ** 0.8 (power = 0.8), to three decimals, in thousandths.
PowMilli(n) ==
    CASE n = 1 -> 1000 [] n = 2 -> 1741 [] n = 3 -> 2408 [] n = 4 -> 3031
      [] n = 5 -> 3623 [] n = 6 -> 4192 [] n = 7 -> 4743 [] n = 8 -> 5278
      [] n = 9 -> 5799 [] n = 10 -> 6309 [] n = 11 -> 6809 [] n = 12 -> 7300

\* _get_bbox_dimensions(n, power): (n**power, n**power)
GetBBoxDimensions(n) == << Rat(PowMilli(n), 1000), Rat(PowMilli(n), 1000) >>

\* pad_by = 0.05, the default of _get_component_bboxes
DefaultPadBy == Rat(5, 100)

\* Two integer rectangles (x, y) + (w, h) share interior points.
RectsOverlap(p, d, q, e) ==
    /\ p[1] < q[1] + e[1] /\ q[1] < p[1] + d[1]
    /\ p[2] < q[2] + e[2] /\ q[2] < p[2] + d[2]

\* rpack.pack(dims): the lower-left corners of a placement of the rectangles without
\* overlap.  rpack is an external library: every placement in which each rectangle
\* sits at the origin or against the right / upper edges of earlier ones is allowed.
RECURSIVE PackingsUpTo(_, _)
PackingsUpTo(dims, n) ==
    IF n = 0 THEN { << >> }
    ELSE UNION {
           LET xs == {0} \cup { p[j][1] + dims[j][1] : j \in 1 .. (n - 1) }
               ys == {0} \cup { p[j][2] + dims[j][2] : j \in 1 .. (n - 1) }
               free == { c \in xs \X ys :
                           \A j \in 1 .. (n - 1) : ~RectsOverlap(c, dims[n], p[j], dims[j]) }
           IN  { Append(p, c) : c \in free }
           : p \in PackingsUpTo(dims, n - 1) }

Packings(dims) == PackingsUpTo(dims, Len(dims))

\* _rescale_bboxes_to_canvas(bboxes, origin, scale); the code never reads origin.
RescaleBBoxesToCanvas(boxes, org, scl) ==
    LET lower_left == [i \in DOMAIN boxes |-> << boxes[i][1], boxes[i][2] >>]
        upper_right == [i \in DOMAIN boxes |->
                           << RAdd(boxes[i][1], boxes[i][3]), RAdd(boxes[i][2], boxes[i][4]) >>]
        minimum == << RMinOf(Column(lower_left, 1)), RMinOf(Column(lower_left, 2)) >>
        maximum == << RMaxOf(Column(upper_right, 1)), RMaxOf(Column(upper_right, 2)) >>
        total_width == RSub(maximum[1], minimum[1])
        total_height == RSub(maximum[2], minimum[2])
        scale_x == RDiv(scl[1], total_width)
        scale_y == RDiv(scl[2], total_height)
    IN  [i \in DOMAIN boxes |->
            << RMul(RSub(lower_left[i][1], minimum[1]), scale_x),
               RMul(RSub(lower_left[i][2], minimum[2]), scale_y),
               RMul(boxes[i][3], scale_x),
               RMul(boxes[i][4], scale_y) >>]

\* relative_dimensions, line 495
RelativeDimensions(cs) == [i \in DOMAIN cs |-> GetBBoxDimensions(Cardinality(cs[i]))]

\* integer_dimensions, lines 499-508
IntegerDimensions(cs, pad) ==
    LET rel == RelativeDimensions(cs)
        pad_x == RMul(pad, RMaxOf(Column(rel, 1)))
        pad_y == RMul(pad, RMaxOf(Column(rel, 2)))
    IN  [i \in DOMAIN cs |->
            << RInt(RMul(RI(scalar), RAdd(rel[i][1], pad_x))),
               RInt(RMul(RI(scalar), RAdd(rel[i][2], pad_y))) >>]

\* bboxes before the rescale, line 511
PackedBBoxes(cs, origins) ==
    LET rel == RelativeDimensions(cs)
    IN  [i \in DOMAIN cs |->
            << RI(origins[i][1]), RI(origins[i][2]),
               RMul(RI(scalar), rel[i][1]), RMul(RI(scalar), rel[i][2]) >>]

\* bboxes = _get_component_bboxes(components, origin, scale)
GetComponentBBoxes ==
    /\ pc = "bboxes"
    /\ components # << >>
    /\ \E origins \in Packings(IntegerDimensions(components, pad_by)) :
          bboxes' = RescaleBBoxesToCanvas(PackedBBoxes(components, origins), origin, scale)
    /\ pc' = "place"
    /\ UNCHANGED <<ccVars, origin, scale, pad_by, mcVars, frVars, tdVars>>

\* np.max of an empty list raises ValueError
GetComponentBBoxesEmpty ==
    /\ pc = "bboxes"
    /\ components = << >>
    /\ pc' = "ValueError"
    /\ UNCHANGED <<ccVars, bbVars, mcVars, frVars, tdVars>>

\* The i-th of the components given to the packer alone: `size` nodes, disjoint from the others.
ComponentOfSize(i, size) == { 10 * i + n : n \in 1 .. size }

ComponentLists ==
    UNION { [1 .. n -> 1 .. MaxComponentSize] : n \in 0 .. MaxComponents }

Origins == { << RI(0), RI(0) >>, << RI(1), RI(2) >> }

Scales == { << RI(1), RI(1) >>, << RI(2), RI(1) >> }

PadBys == { DefaultPadBy, Rat(1, 100) }

InitBB ==
    /\ \E sizes \in ComponentLists :
          components = [i \in DOMAIN sizes |-> ComponentOfSize(i, sizes[i])]
    /\ origin \in Origins
    /\ scale \in Scales
    /\ pad_by \in PadBys
    /\ bboxes = << >>
    /\ adjacency_list = << >>
    /\ not_visited = {}
    /\ visited = {}
    /\ stack = << >>
    /\ IdleMC
    /\ IdleFR
    /\ IdleTD
    /\ pc = "bboxes"

NextBB ==
    \/ GetComponentBBoxes
    \/ GetComponentBBoxesEmpty

SpecBB == InitBB /\ [][NextBB]_vars

\* ------------------------------------------------------------------ claims C7-C8

LowerLeft(b) == << b[1], b[2] >>

UpperRight(b) == << RAdd(b[1], b[3]), RAdd(b[2], b[4]) >>

BoxesOverlap(a, b) ==
    /\ RLt(a[1], RAdd(b[1], b[3])) /\ RLt(b[1], RAdd(a[1], a[3]))
    /\ RLt(a[2], RAdd(b[2], b[4])) /\ RLt(b[2], RAdd(a[2], a[4]))

\* C7: the rescaled boxes exactly fill the target region: the smallest lower-left
\* corner is origin and the largest upper-right corner is origin + scale.
C7_BoxesFillCanvas ==
    (pc = "place" /\ bboxes # << >>) =>
        \A c \in 1 .. 2 :
            /\ RMinOf([i \in DOMAIN bboxes |-> LowerLeft(bboxes[i])[c]]) = origin[c]
            /\ RMaxOf([i \in DOMAIN bboxes |-> UpperRight(bboxes[i])[c]])
                  = RAdd(origin[c], scale[c])

\* C8: for every pad_by > 0 the interiors of two returned boxes do not intersect.
C8_BoxesDisjoint ==
    pc = "place" =>
        \A i, j \in DOMAIN bboxes : i # j => ~BoxesOverlap(bboxes[i], bboxes[j])

\* ------------------------------------------------------------------ get_fruchterman_reingold_layout
\* Inside the layout engine a length is a number of ticks, Unit ticks to 1.0.
\* Arithmetic is exact except where noted: square roots are rounded up (to whole
\* ticks from 1 on, to eighths below), the net force on a node is rounded to whole
\* ticks away from zero (so it is 0 only when it is exactly 0) and the clamped
\* displacement towards zero.

\* Ticks per unit length.
Unit == 10

\* Number of iterations of the main loop (total_iterations).
TotalIterations == 2

\* np.random.rand draws from { 0, 1/RandSteps, ..., (RandSteps-1)/RandSteps }.
RandSteps == 2

BASE_NODE_SIZE == Rat(1, 100)

\* The floor of a distance (1e-6 in the code), at the resolution of the model.
MinDistance == Rat(1, 4)

\* rand_delta (np.random.rand * 1e-9 in the code), at the resolution of the model:
\* a vector with non-negative entries, shorter than MinDistance.
JitterVectors == { << Rat(1, 8), RI(0) >>, << Rat(1, 8), Rat(1, 8) >> }

RandValues == { Rat(i, RandSteps) : i \in 0 .. (RandSteps - 1) }

\* np.random.rand(2) * scale + origin, in whole ticks
RandomPosition(rand, org, scl) ==
    << RAdd(RoundToZero(RMul(rand[1], scl[1])), org[1]),
       RAdd(RoundToZero(RMul(rand[2], scl[2])), org[2]) >>

IndexOf(seq, v) == CHOOSE i \in DOMAIN seq : seq[i] = v

SeqToSet(seq) == { seq[i] : i \in DOMAIN seq }

RECURSIVE SortedList(_)
SortedList(S) ==
    IF S = {} THEN << >>
    ELSE LET m == CHOOSE x \in S : \A y \in S : x <= y
         IN  << m >> \o SortedList(S \ {m})

\* _get_unique_nodes(edge_list) of _utils, as the specification describes it:
\* the nodes of the edge list in a fixed order.
GetUniqueNodes(edges) ==
    SortedList({ edges[e][1] : e \in DOMAIN edges } \cup { edges[e][2] : e \in DOMAIN edges })

\* _edge_list_to_adjacency_matrix(edge_list) of _utils, as the specification
\* describes it: entry (i, j) is the weight of the
\* edges from node i to node j, rows and columns in the order of the unique nodes.
EdgeListToAdjacencyMatrix(edges) ==
    LET nodes == GetUniqueNodes(edges)
    IN  [i \in DOMAIN nodes |-> [j \in DOMAIN nodes |->
            Cardinality({ e \in DOMAIN edges : edges[e] = << nodes[i], nodes[j] >> })]]

\* adjacency + adjacency.transpose()
Symmetrised(a) == [i \in DOMAIN a |-> [j \in DOMAIN a |-> a[i][j] + a[j][i]]]

\* An ordered dict as the list of its items.
DictKeys(d) == [i \in DOMAIN d |-> d[i][1]]

DictValues(d) == [i \in DOMAIN d |-> d[i][2]]

DictGet(d, key) == d[CHOOSE i \in DOMAIN d : d[i][1] = key][2]

\* _is_within_bbox(points, origin, scale), for one point
IsWithinBBox(p, org, scl) ==
    \A c \in 1 .. 2 : RLe(org[c], p[c]) /\ RLe(p[c], RAdd(org[c], scl[c]))

\* _get_temperature_decay(initial_temperature, total_iterations, mode): the value of
\* step i is main + eps * 1e-9; the term with eps = 1e-9 is kept apart.
Linspace01(n) == [i \in 1 .. n |-> IF n = 1 THEN RI(0) ELSE Rat(i - 1, n - 1)]

\* Mutant of GetTemperatureDecay: eps is not added.
GetTemperatureDecay_no_eps(initial_temperature, total_iterations, mode) ==
    LET x == Linspace01(total_iterations)
    IN  [i \in 1 .. total_iterations |->
            [main |-> RMul(initial_temperature,
                           IF mode = "quadratic"
                           THEN RMul(RSub(x[i], RI(1)), RSub(x[i], RI(1)))
                           ELSE RSub(RI(1), x[i])),
             eps |-> RI(0)]]

GetTemperatureDecay(initial_temperature, total_iterations, mode) ==
    LET x == Linspace01(total_iterations)
    IN  [i \in 1 .. total_iterations |->
            [main |-> RMul(initial_temperature,
                           IF mode = "quadratic"
                           THEN RMul(RSub(x[i], RI(1)), RSub(x[i], RI(1)))
                           ELSE RSub(RI(1), x[i])),
             eps |-> initial_temperature]]

\* np.clip(length, None, temperature); the 1e-9 term is below the resolution of a length.
ClipToTemperature(length, temperature) ==
    IF IsNaN(length) THEN NaN
    ELSE IF RLe(length, temperature.main) THEN length ELSE temperature.main

\* An array whose entries are computed once, when the array is built.
Array(f) == f @@ << >>

\* _get_fr_repulsion(distance, direction, k): the force on node j
FrRepulsion(distance, direction, kk, j) ==
    LET n == Len(distance)
        vectors == Array([i \in 1 .. n |->
                      IF i = j THEN << RI(0), RI(0) >>
                      ELSE VScale(direction[i][j], RDiv(RMul(kk, kk), distance[i][j]))])
    IN  VSumOf(vectors)

\* _get_fr_attraction(distance, direction, adjacency, k): the force on node j
FrAttraction(distance, direction, adj, kk, j) ==
    LET n == Len(distance)
        vectors == Array([i \in 1 .. n |->
                      IF i = j THEN << RI(0), RI(0) >>
                      ELSE VScale(direction[i][j],
                                  RNeg(RMul(RMul(RDiv(RI(1), kk),
                                                 RMul(distance[i][j], distance[i][j])),
                                            RI(adj[i][j]))))])
    IN  VSumOf(vectors)

\* The off-diagonal zero distances of line 230.
HasCoincident(positions) ==
    \E i, j \in DOMAIN positions : i # j /\ positions[i] = positions[j]

\* limit maximum displacement using temperature, lines 252-253
ClampedDisplacement(displacement, temperature) ==
    LET displacement_length == Norm(displacement)
        clipped == ClipToTemperature(displacement_length, temperature)
    IN  << RoundToZero(RMul(RDiv(displacement[1], displacement_length), clipped)),
           RoundToZero(RMul(RDiv(displacement[2], displacement_length), clipped)) >>

\* _fruchterman_reingold(adjacency, node_positions, origin, scale, temperature, k, node_radii);
\* rand_delta is the array drawn on line 232.
FruchtermanReingold(adj, positions, temperature, kk, node_radii, rand_delta) ==
    LET n == Len(positions)
        delta0 == Array([i \in 1 .. n |-> Array([j \in 1 .. n |->
                    VSub(positions[j], positions[i])])])
        distance0 == Array([i \in 1 .. n |-> Array([j \in 1 .. n |-> Norm(delta0[i][j])])])
        coincident == \E i, j \in 1 .. n : i # j /\ distance0[i][j] = RI(0)
        delta == Array([i \in 1 .. n |-> Array([j \in 1 .. n |->
                    IF coincident /\ RLe(distance0[i][j], RI(0))
                    THEN rand_delta[i][j] ELSE delta0[i][j]])])
        distance1 == Array([i \in 1 .. n |-> Array([j \in 1 .. n |->
                        IF coincident THEN Norm(delta[i][j]) ELSE distance0[i][j]])])
        distance2 == Array([i \in 1 .. n |-> Array([j \in 1 .. n |->
                        RSub(distance1[i][j], RAdd(node_radii[j], node_radii[i]))])])
        distance == Array([i \in 1 .. n |-> Array([j \in 1 .. n |->
                        IF RLe(distance2[i][j], RI(0)) THEN MinDistance ELSE distance2[i][j]])])
        direction == Array([i \in 1 .. n |-> Array([j \in 1 .. n |->
                        << RDiv(delta[i][j][1], distance[i][j]),
                           RDiv(delta[i][j][2], distance[i][j]) >>])])
        force == Array([j \in 1 .. n |->
                        VAdd(FrAttraction(distance, direction, adj, kk, j),
                             FrRepulsion(distance, direction, kk, j))])
        displacement == Array([j \in 1 .. n |->
                            << RoundAway(force[j][1]), RoundAway(force[j][2]) >>])
    IN  [j \in 1 .. n |-> VAdd(positions[j], ClampedDisplacement(displacement[j], temperature))]

\* node_positions_as_array[is_mobile] = new[is_mobile]
AssignMobile(old, new, mobile) ==
    [i \in DOMAIN old |-> IF mobile[i] THEN new[i] ELSE old[i]]

\* _rescale_to_frame(node_positions, origin, scale)
RescaleToFrame(positions, org, scl) ==
    LET minimum == << RMinOf(Column(positions, 1)), RMinOf(Column(positions, 2)) >>
        shifted == [i \in DOMAIN positions |-> VSub(positions[i], minimum)]
        maximum == << RMaxOf(Column(shifted, 1)), RMaxOf(Column(shifted, 2)) >>
    IN  [i \in DOMAIN positions |->
            << RAdd(RMul(RDiv(shifted[i][1], maximum[1]), scl[1]), org[1]),
               RAdd(RMul(RDiv(shifted[i][2], maximum[2]), scl[2]), org[2]) >>]

\* origin, when the argument is None (lines 88-93)
DefaultOrigin(positions) ==
    IF positions # None /\ Val(positions) # << >>
    THEN LET minima == << RMinOf(Column(DictValues(Val(positions)), 1)),
                          RMinOf(Column(DictValues(Val(positions)), 2)) >>
         IN  << RMinOf(<< minima[1], RI(0) >>), RMinOf(<< minima[2], RI(0) >>) >>
    ELSE << RI(0), RI(0) >>

\* scale, when the argument is None (lines 98-104); 1.0 is Unit ticks
DefaultScale(positions, org) ==
    IF positions # None /\ Val(positions) # << >>
    THEN LET delta == [i \in DOMAIN Val(positions) |-> VSub(Val(positions)[i][2], org)]
             maxima == << RMaxOf(Column(delta, 1)), RMaxOf(Column(delta, 2)) >>
         IN  << RMaxOf(<< maxima[1], RI(Unit) >>), RMaxOf(<< maxima[2], RI(Unit) >>) >>
    ELSE << RI(Unit), RI(Unit) >>

\* node_size as an array (lines 156-161), in ticks
NodeSizeArray(size, nodes) ==
    IF size = None THEN [i \in DOMAIN nodes |-> RI(0)]
    ELSE [i \in DOMAIN nodes |->
            IF nodes[i] \in DOMAIN Val(size)
            THEN RMul(RMul(BASE_NODE_SIZE, Val(size)[nodes[i]]), RI(Unit)) ELSE RI(0)]

\* is_mobile (lines 163-166)
IsMobileArray(fixed, nodes) ==
    IF fixed = None THEN [i \in DOMAIN nodes |-> TRUE]
    ELSE [i \in DOMAIN nodes |-> nodes[i] \notin Val(fixed)]

\* k, when the argument is None (lines 174-176)
DefaultK(scl, total_nodes) == RSqrt(RDiv(RMul(scl[1], scl[2]), RI(total_nodes)))

\* The rest of the set-up once node_positions_as_array is known (lines 154-178).
FRReady(org, scl, positions, array) ==
    LET nodes == GetUniqueNodes(fr_edge_list)
    IN  /\ fr_origin' = Some(org)
        /\ fr_scale' = Some(scl)
        /\ fr_node_positions' = positions
        /\ unique_nodes' = nodes
        /\ node_positions_as_array' = array
        /\ node_size' = Some(NodeSizeArray(node_size, nodes))
        /\ is_mobile' = IsMobileArray(fixed_nodes, nodes)
        /\ adjacency' = Symmetrised(EdgeListToAdjacencyMatrix(fr_edge_list))
        /\ k' = IF k = None THEN Some(DefaultK(scl, Len(nodes))) ELSE k
        /\ temperatures' = GetTemperatureDecay(RI(Unit), TotalIterations, "quadratic")
        /\ it' = 0
        /\ pc' = "fr_loop"
        /\ UNCHANGED <<fr_edge_list, fixed_nodes, fr_result>>

\* The call ends with an exception.
FRRaise(error, org, scl, positions) ==
    /\ fr_origin' = Some(org)
    /\ fr_scale' = Some(scl)
    /\ fr_node_positions' = positions
    /\ pc' = error
    /\ UNCHANGED <<fr_edge_list, fixed_nodes, node_size, k, frLocals>>

FROrigin == IF fr_origin = None THEN DefaultOrigin(fr_node_positions) ELSE Val(fr_origin)

FRScale == IF fr_scale = None THEN DefaultScale(fr_node_positions, FROrigin) ELSE Val(fr_scale)

\* The items of node_positions, when it is given.
GivenPositions == Val(fr_node_positions)

GivenKeys == SeqToSet(DictKeys(GivenPositions))

EdgeListNodes == SeqToSet(GetUniqueNodes(fr_edge_list))

AllWithinBBox ==
    \A i \in DOMAIN GivenPositions : IsWithinBBox(GivenPositions[i][2], FROrigin, FRScale)

\* node_positions is None: random starting positions (lines 116-117)
FRSetupRandom ==
    /\ pc = "fr_enter"
    /\ fr_node_positions = None
    /\ LET nodes == GetUniqueNodes(fr_edge_list)
       IN  \E rand \in [DOMAIN nodes -> RandValues \X RandValues] :
              FRReady(FROrigin, FRScale, None,
                      [i \in DOMAIN nodes |-> RandomPosition(rand[i], FROrigin, FRScale)])
    /\ UNCHANGED <<ccVars, bbVars, mcVars, tdVars>>

\* a given position is outside the frame: ValueError (lines 124-132)
FRSetupOutside ==
    /\ pc = "fr_enter"
    /\ fr_node_positions # None
    /\ ~AllWithinBBox
    /\ FRRaise("ValueError", FROrigin, FRScale, fr_node_positions)
    /\ UNCHANGED <<ccVars, bbVars, mcVars, tdVars>>

\* The keys of node_positions are the nodes of the edge list (lines 135-139, 154).
FRSetupGiven ==
    /\ pc = "fr_enter"
    /\ fr_node_positions # None
    /\ AllWithinBBox
    /\ GivenKeys = EdgeListNodes
    /\ FRReady(FROrigin, FRScale, fr_node_positions, DictValues(GivenPositions))
    /\ UNCHANGED <<ccVars, bbVars, mcVars, tdVars>>

\* node_positions after lines 142-145: the nodes without a position get a random one.
RECURSIVE WithMissing(_, _, _, _, _)
WithMissing(positions, missing, rand, org, scl) ==
    IF missing = << >> THEN positions
    ELSE WithMissing(Append(positions, << Head(missing),
                                          RandomPosition(rand[Head(missing)], org, scl) >>),
                     Tail(missing), rand, org, scl)

MissingNodes ==
    SelectSeq(GetUniqueNodes(fr_edge_list), LAMBDA v : v \notin GivenKeys)

\* Some positions are missing, none is superfluous (lines 140-154).
FRSetupMissing ==
    /\ pc = "fr_enter"
    /\ fr_node_positions # None
    /\ AllWithinBBox
    /\ GivenKeys # EdgeListNodes
    /\ GivenKeys \subseteq EdgeListNodes
    /\ \E rand \in [SeqToSet(MissingNodes) -> RandValues \X RandValues] :
          LET positions == WithMissing(GivenPositions, MissingNodes, rand, FROrigin, FRScale)
          IN  FRReady(FROrigin, FRScale, Some(positions), DictValues(positions))
    /\ UNCHANGED <<ccVars, bbVars, mcVars, tdVars>>

\* A key of node_positions is no node of the edge list: it is deleted while the
\* dict is iterated over, and the next step of the iteration raises RuntimeError
\* (lines 148-152).
FRSetupSuperfluous ==
    /\ pc = "fr_enter"
    /\ fr_node_positions # None
    /\ AllWithinBBox
    /\ ~(GivenKeys \subseteq EdgeListNodes)
    /\ \E rand \in [SeqToSet(MissingNodes) -> RandValues \X RandValues] :
          LET positions == WithMissing(GivenPositions, MissingNodes, rand, FROrigin, FRScale)
              first == CHOOSE i \in DOMAIN positions :
                          /\ positions[i][1] \notin EdgeListNodes
                          /\ \A j \in 1 .. (i - 1) : positions[j][1] \in EdgeListNodes
          IN  FRRaise("RuntimeError", FROrigin, FRScale,
                      Some(SubSeq(positions, 1, first - 1)
                              \o SubSeq(positions, first + 1, Len(positions))))
    /\ UNCHANGED <<ccVars, bbVars, mcVars, tdVars>>

\* rand_delta of line 232; it is read only for the pairs of distinct nodes that
\* coincide (the diagonal is set to 0 by _set_diagonal), the other entries are left 0.
RandDeltas(positions) ==
    LET coincident == { p \in (DOMAIN positions) \X (DOMAIN positions) :
                          /\ p[1] # p[2]
                          /\ positions[p[1]] = positions[p[2]] }
    IN  { [i \in DOMAIN positions |-> [j \in DOMAIN positions |->
              IF << i, j >> \in coincident THEN f[<< i, j >>] ELSE << RI(0), RI(0) >>]] :
          f \in [coincident -> JitterVectors] }

\* One iteration of the main loop (lines 184-191).
FRIterate ==
    /\ pc = "fr_loop"
    /\ it < Len(temperatures)
    /\ \E rand_delta \in RandDeltas(node_positions_as_array) :
          node_positions_as_array' =
              AssignMobile(node_positions_as_array,
                           FruchtermanReingold(adjacency, node_positions_as_array,
                                               temperatures[it + 1], Val(k), Val(node_size),
                                               rand_delta),
                           is_mobile)
    /\ it' = it + 1
    /\ UNCHANGED <<frArgs, unique_nodes, is_mobile, adjacency, temperatures, fr_result, pc>>
    /\ UNCHANGED <<ccVars, bbVars, mcVars, tdVars>>

\* dict(zip(unique_nodes, node_positions_as_array))
ZipToDict(nodes, array) ==
    [v \in SeqToSet(nodes) |-> array[CHOOSE i \in DOMAIN nodes : nodes[i] = v]]

\* The rescale after the loop and the result (lines 193-200).
FRFinish ==
    /\ pc = "fr_loop"
    /\ it = Len(temperatures)
    /\ node_positions_as_array' =
          RescaleToFrame(node_positions_as_array, Val(fr_origin), Val(fr_scale))
    /\ fr_result' = ZipToDict(unique_nodes, node_positions_as_array')
    /\ pc' = "fr_done"
    /\ UNCHANGED <<frArgs, unique_nodes, is_mobile, adjacency, temperatures, it>>
    /\ UNCHANGED <<ccVars, bbVars, mcVars, tdVars>>

\* ------------------------------------------------------------------ calls of the layout engine

Point(x, y) == << RI(x), RI(y) >>

FREdgeLists ==
    { << <<0, 1>> >>, << <<1, 0>>, <<1, 2>> >>, << <<0, 0>> >> }

\* (origin, scale)
FRFrames ==
    { << None, None >>,
      << Some(Point(0, 0)), Some(Point(Unit, Unit)) >>,
      << Some(Point(Unit \div 2, 0)), Some(Point(Unit, Unit)) >> }

FRPoints == { Point(0, 0), Point(Unit \div 2, Unit \div 2), Point(Unit \div 2, Unit) }

\* The orders in which a dict can hold the keys `keys`.
OrderedKeys(keys) ==
    { ks \in [1 .. Cardinality(keys) -> keys] : \A i, j \in DOMAIN ks : i # j => ks[i] # ks[j] }

\* The dicts with the keys in one of the orders `orders`, with values in FRPoints.
DictsOver(orders) ==
    { [i \in DOMAIN ks |-> << ks[i], ps[i] >>] : ks \in orders, ps \in [1 .. 3 -> FRPoints] }

FRNodePositions ==
    {None} \cup { Some(d) : d \in DictsOver(OrderedKeys({0, 1})) \cup DictsOver(OrderedKeys({0}))
                                    \cup DictsOver({ <<0, 1, 2>>, <<2, 0, 1>> }) }

\* (fixed_nodes, node_size)
FROptions ==
    { << None, None >>, << Some({0}), None >>, << Some({1, 2}), Some(0 :> RI(25)) >> }

InitFR ==
    /\ fr_edge_list \in FREdgeLists
    /\ \E frame \in FRFrames : fr_origin = frame[1] /\ fr_scale = frame[2]
    /\ fr_node_positions \in FRNodePositions
    /\ \E option \in FROptions : fixed_nodes = option[1] /\ node_size = option[2]
    /\ k = None
    /\ unique_nodes = << >>
    /\ node_positions_as_array = << >>
    /\ is_mobile = << >>
    /\ adjacency = << >>
    /\ temperatures = << >>
    /\ it = 0
    /\ fr_result = << >>
    /\ adjacency_list = << >>
    /\ not_visited = {}
    /\ components = << >>
    /\ visited = {}
    /\ stack = << >>
    /\ IdleBB
    /\ IdleMC
    /\ IdleTD
    /\ pc = "fr_enter"

NextFR ==
    \/ FRSetupRandom
    \/ FRSetupOutside
    \/ FRSetupGiven
    \/ FRSetupMissing
    \/ FRSetupSuperfluous
    \/ FRIterate
    \/ FRFinish

SpecFR == InitFR /\ [][NextFR]_vars

\* ------------------------------------------------------------------ claim C10

\* The row of node v in the arrays: its index in unique_nodes.
RowOf(v) == IndexOf(unique_nodes, v)

\* The fixed nodes that the edge list names and that were given a position.
FixedGivenNodes ==
    IF fixed_nodes = None \/ fr_node_positions = None THEN {}
    ELSE (Val(fixed_nodes) \cap SeqToSet(unique_nodes)) \cap GivenKeys

\* C10: during the main loop, before the rescale, the position of every node
\* named in fixed_nodes is its supplied initial position: no iteration changes it.
C10_FixedNodesKeepSuppliedPosition ==
    pc = "fr_loop" =>
        \A v \in FixedGivenNodes :
            node_positions_as_array[RowOf(v)] = DictGet(GivenPositions, v)

\* C10, the part that does not depend on which row a node has: an iteration of
\* the main loop leaves the rows flagged as not mobile as they are.
C10_FixedRowsUnchanged ==
    [][(pc = "fr_loop" /\ pc' = "fr_loop") =>
          \A i \in DOMAIN is_mobile :
              ~is_mobile[i] => node_positions_as_array'[i] = node_positions_as_array[i]]_vars

\* ------------------------------------------------------------------ claim C11

\* The call was given positions, all inside the frame, with a key that the edge
\* list does not name.
SuperfluousGiven ==
    /\ pc = "fr_enter"
    /\ fr_node_positions # None
    /\ AllWithinBBox
    /\ ~(GivenKeys \subseteq EdgeListNodes)

\* C11: when the supplied positions, all inside the frame, name a node that the
\* edge list does not name, the call does not fail: the position is dropped and
\* the layout goes on with positions for exactly the nodes of the edge list.
C11_SuperfluousPositionDropped ==
    [][SuperfluousGiven =>
          /\ pc' = "fr_loop"
          /\ SeqToSet(DictKeys(Val(fr_node_positions'))) = EdgeListNodes]_vars

\* ------------------------------------------------------------------ _get_temperature_decay called alone

\* Largest total_iterations of the calls.
MaxTotalIterations == 6

TDInitialTemperatures == { Rat(1, 1000), Rat(1, 2), RI(1), RI(3), RI(Unit) }

TDModes == { "quadratic", "linear", "exponential" }

InitTD ==
    /\ td_initial_temperature \in TDInitialTemperatures
    /\ td_total_iterations \in 1 .. MaxTotalIterations
    /\ td_mode \in TDModes
    /\ adjacency_list = << >>
    /\ not_visited = {}
    /\ components = << >>
    /\ visited = {}
    /\ stack = << >>
    /\ IdleBB
    /\ IdleMC
    /\ IdleFR
    /\ pc = "td_enter"

\* return initial_temperature * y, lines 208-215
TemperatureDecay ==
    /\ pc = "td_enter"
    /\ td_mode \in { "quadratic", "linear" }
    /\ temperatures' =
          GetTemperatureDecay(td_initial_temperature, td_total_iterations, td_mode)
    /\ pc' = "td_done"
    /\ UNCHANGED <<ccVars, bbVars, mcVars, frArgs, unique_nodes, node_positions_as_array,
                   is_mobile, adjacency, it, fr_result, tdVars>>

\* mode is neither 'quadratic' nor 'linear': ValueError, lines 213-214
TemperatureDecayUnsupported ==
    /\ pc = "td_enter"
    /\ td_mode \notin { "quadratic", "linear" }
    /\ pc' = "ValueError"
    /\ UNCHANGED <<ccVars, bbVars, mcVars, frVars, tdVars>>

NextTD ==
    \/ TemperatureDecay
    \/ TemperatureDecayUnsupported

SpecTD == InitTD /\ [][NextTD]_vars

\* ------------------------------------------------------------------ claim C12

\* A temperature [main, eps] is the number main + eps * 1e-9.  Two temperatures
\* are compared by main and, when main is equal, by eps: 1e-9 times the
\* difference of the eps is smaller than any difference of the mains of the model.
TemperatureLe(t, u) == RLt(t.main, u.main) \/ (t.main = u.main /\ RLe(t.eps, u.eps))

TemperaturePositive(t) == RLt(RI(0), t.main) \/ (t.main = RI(0) /\ RLt(RI(0), t.eps))

\* C12, as claimed: every value of the sequence is strictly positive and at most
\* initial_temperature, the first value included.
C12_AtMostInitialTemperature ==
    pc = "td_done" =>
        \A i \in DOMAIN temperatures :
            /\ TemperaturePositive(temperatures[i])
            /\ TemperatureLe(temperatures[i],
                             [main |-> td_initial_temperature, eps |-> RI(0)])

\* C12, amended: the sequence has total_iterations values, every value is strictly
\* positive and at most initial_temperature * (1 + 1e-9), and the first value is
\* initial_temperature * (1 + 1e-9), above initial_temperature.
C12_AtMostInitialTemperaturePlusEps ==
    pc = "td_done" =>
        /\ Len(temperatures) = td_total_iterations
        /\ \A i \in DOMAIN temperatures :
              /\ TemperaturePositive(temperatures[i])
              /\ TemperatureLe(temperatures[i],
                               [main |-> td_initial_temperature,
                                eps |-> td_initial_temperature])
        /\ temperatures[1] =
              [main |-> td_initial_temperature, eps |-> td_initial_temperature]

C12_Witness ==
    /\ pc = "td_done"
    /\ td_mode = "linear"
    /\ td_initial_temperature = RI(3)
    /\ td_total_iterations = 3
    /\ temperatures = << [main |-> RI(3), eps |-> RI(3)],
                         [main |-> Rat(3, 2), eps |-> RI(3)],
                         [main |-> RI(0), eps |-> RI(3)] >>

\* ------------------------------------------------------------------ claim C13

\* No coordinate of the array is NaN.
NoNaNRow(array) == \A i \in DOMAIN array : ~IsNaN(array[i][1]) /\ ~IsNaN(array[i][2])

\* The squared length of the step of row i in the iteration.
MovedSquared(i) ==
    LET moved == VSub(node_positions_as_array'[i], node_positions_as_array[i])
    IN  RAdd(RMul(moved[1], moved[1]), RMul(moved[2], moved[2]))

\* C13: an iteration that starts from positions without NaN moves every mobile
\* node by at most the temperature of the iteration and leaves it at a position
\* without NaN; a node whose net force is zero stays where it is.
C13_StepWithinTemperature ==
    [][(pc = "fr_loop" /\ it' = it + 1 /\ NoNaNRow(node_positions_as_array)) =>
          \A i \in DOMAIN is_mobile :
              is_mobile[i] =>
                  /\ ~IsNaN(node_positions_as_array'[i][1])
                  /\ ~IsNaN(node_positions_as_array'[i][2])
                  /\ RLe(MovedSquared(i),
                         RMul(temperatures[it'].main, temperatures[it'].main))]_vars

\* ------------------------------------------------------------------ claim C14

\* The row of node_positions_as_array that starts at the position of node v:
\* the place of v among the keys of node_positions (line 154).
PositionRowOf(v) == IndexOf(DictKeys(GivenPositions), v)

\* C14: one table of nodes and rows serves the whole call: the row that starts
\* at the initial position of a node is the row that gets the node's size and
\* its fixed or mobile flag and that is returned as the node's position,
\* whatever the order of the keys of node_positions.
C14_OneNodeToIndexTable ==
    (pc = "fr_loop" /\ fr_node_positions # None) =>
        \A v \in SeqToSet(unique_nodes) : PositionRowOf(v) = RowOf(v)

\* ------------------------------------------------------------------ claim C15

\* C15: for every finite adjacency list, with cycles and with leaf nodes,
\* _get_connected_components does not raise: no call of _dfs fails, and every
\* call of _dfs starts at a node that has an entry, so no missing key is looked up.
C15_NeverRaises ==
    /\ pc # "RecursionError"
    /\ \A i \in DOMAIN stack : stack[i].start \in Keys(adjacency_list)

\* ------------------------------------------------------------------ get_layout_for_multiple_components

\* _edge_list_to_adjacency_list(edge_list) of _utils, as the specification and the
\* comments of _get_connected_components describe it: each source with the set of
\* its targets; a node without outgoing edge has no entry.
EdgeListToAdjacencyList(edges) ==
    [source \in { edges[e][1] : e \in DOMAIN edges } |->
        { edges[e][2] : e \in { d \in DOMAIN edges : edges[d][1] = source } }]

\* _get_subgraph(edge_list, component) of _utils, as the specification describes
\* it: the edges between nodes of the component.
GetSubgraph(edges, component) ==
    SelectSeq(edges, LAMBDA e : e[1] \in component /\ e[2] \in component)

\* Lengths of the canvas, where 1.0 is 1, as lengths of the layout engine and back.
ToTicks(p) == << RMul(p[1], RI(Unit)), RMul(p[2], RI(Unit)) >>

FromTicks(p) == << RDiv(p[1], RI(Unit)), RDiv(p[2], RI(Unit)) >>

\* Mutant of BBoxCentre: the upper right corner of the box.
BBoxCentre_upper_right(bbox) == << RAdd(bbox[1], bbox[3]), RAdd(bbox[2], bbox[4]) >>

\* (bbox[0] + 0.5 * bbox[2], bbox[1] + 0.5 * bbox[3]), line 429
BBoxCentre(bbox) ==
    << RAdd(bbox[1], RMul(Rat(1, 2), bbox[3])), RAdd(bbox[2], RMul(Rat(1, 2), bbox[4])) >>

\* dict.update: the items of `new` replace or extend those of `old`.
DictUpdate(old, new) == new @@ old

\* components + [set([node]) for node in unconnected_nodes], line 408
AppendUnconnected ==
    /\ pc = "sorted"
    /\ unconnected_nodes # None
    /\ components' = components \o [i \in DOMAIN Val(unconnected_nodes) |->
                                       { Val(unconnected_nodes)[i] }]
    /\ pc' = "bboxes"
    /\ UNCHANGED <<adjacency_list, not_visited, visited, stack, bbVars, mcVars, frVars, tdVars>>

\* unconnected_nodes was left at its default None: iterating over None raises TypeError.
AppendUnconnectedNone ==
    /\ pc = "sorted"
    /\ unconnected_nodes = None
    /\ pc' = "TypeError"
    /\ UNCHANGED <<ccVars, bbVars, mcVars, frVars, tdVars>>

\* One iteration of the loop for a component with one node (lines 427-429).
PlaceSingleNode ==
    /\ pc = "place"
    /\ ii < Len(components)
    /\ Cardinality(components[ii + 1]) <= 1
    /\ LET node == CHOOSE v \in components[ii + 1] : TRUE
       IN  /\ node_positions' = DictUpdate(node_positions, node :> BBoxCentre(bboxes[ii + 1]))
           /\ components' = [components EXCEPT ![ii + 1] = @ \ {node}]
           /\ written' = Append(written, {node})
    /\ ii' = ii + 1
    /\ UNCHANGED <<adjacency_list, not_visited, visited, stack, bbVars, edge_list,
                   unconnected_nodes, layout_calls, frVars, tdVars, pc>>

\* A component with more than one node: component_layout_function is called with the
\* subgraph and the box of the component (lines 423-425); node_size is not passed on.
CallComponentLayout ==
    /\ pc = "place"
    /\ ii < Len(components)
    /\ Cardinality(components[ii + 1]) > 1
    /\ fr_edge_list' = GetSubgraph(edge_list, components[ii + 1])
    /\ fr_origin' = Some(ToTicks(<< bboxes[ii + 1][1], bboxes[ii + 1][2] >>))
    /\ fr_scale' = Some(ToTicks(<< bboxes[ii + 1][3], bboxes[ii + 1][4] >>))
    /\ fr_node_positions' = None
    /\ fixed_nodes' = None
    /\ node_size' = None
    /\ k' = None
    /\ unique_nodes' = << >>
    /\ node_positions_as_array' = << >>
    /\ is_mobile' = << >>
    /\ adjacency' = << >>
    /\ temperatures' = << >>
    /\ it' = 0
    /\ fr_result' = << >>
    /\ layout_calls' = layout_calls \cup {ii}
    /\ pc' = "fr_enter"
    /\ UNCHANGED <<ccVars, bbVars, edge_list, unconnected_nodes, node_positions, ii, written,
                   tdVars>>

\* node_positions.update(component_node_positions), line 426
UpdateNodePositions ==
    /\ pc = "fr_done"
    /\ ii < Len(components)
    /\ node_positions' =
          DictUpdate(node_positions, [v \in DOMAIN fr_result |-> FromTicks(fr_result[v])])
    /\ written' = Append(written, DOMAIN fr_result)
    /\ ii' = ii + 1
    /\ pc' = "place"
    /\ UNCHANGED <<ccVars, bbVars, edge_list, unconnected_nodes, layout_calls, frVars, tdVars>>

\* return node_positions, line 431
ReturnNodePositions ==
    /\ pc = "place"
    /\ ii = Len(components)
    /\ pc' = "done"
    /\ UNCHANGED <<ccVars, bbVars, mcVars, frVars, tdVars>>

\* ------------------------------------------------------------------ calls of the composer

MCEdgeLists ==
    { << >>,
      << <<0, 1>>, <<1, 0>> >>,
      << <<0, 1>>, <<2, 1>> >> }

\* None, or a list of nodes that the edge lists do not name.
MCUnconnectedNodes == { None, Some(<< >>), Some(<< 4 >>) }

\* (origin, scale)
MCCanvases ==
    { << << RI(0), RI(0) >>, << RI(1), RI(1) >> >>,
      << << RI(1), RI(2) >>, << RI(2), RI(1) >> >> }

InitMC ==
    /\ edge_list \in MCEdgeLists
    /\ unconnected_nodes \in MCUnconnectedNodes
    /\ \E canvas \in MCCanvases : origin = canvas[1] /\ scale = canvas[2]
    /\ pad_by = DefaultPadBy
    /\ bboxes = << >>
    /\ node_positions = << >>
    /\ ii = 0
    /\ layout_calls = {}
    /\ written = << >>
    /\ EnterComponents(EdgeListToAdjacencyList(edge_list))
    /\ IdleFR
    /\ IdleTD
    /\ pc = "loop"

NextMC ==
    \/ PopStart
    \/ DfsDescend
    \/ DfsLeaf
    \/ DfsReturn
    \/ CollectComponent
    \/ SortComponents
    \/ AppendUnconnected
    \/ AppendUnconnectedNone
    \/ GetComponentBBoxes
    \/ GetComponentBBoxesEmpty
    \/ PlaceSingleNode
    \/ CallComponentLayout
    \/ FRSetupRandom
    \/ FRIterate
    \/ FRFinish
    \/ UpdateNodePositions
    \/ ReturnNodePositions

SpecMC == InitMC /\ [][NextMC]_vars

\* ------------------------------------------------------------------ claims C4-C6, C9

\* The nodes of the edge list and the unconnected nodes of the call.
AllNodes ==
    { edge_list[e][1] : e \in DOMAIN edge_list } \cup { edge_list[e][2] : e \in DOMAIN edge_list }
        \cup (IF unconnected_nodes = None THEN {} ELSE SeqToSet(Val(unconnected_nodes)))

\* C4: the keys of the returned mapping are exactly the nodes of the edge list and
\* the unconnected nodes, and every node was assigned by exactly one component.
C4_EveryNodeOnce ==
    pc = "done" =>
        /\ DOMAIN node_positions = AllNodes
        /\ \A v \in AllNodes : Cardinality({ i \in DOMAIN written : v \in written[i] }) = 1

\* C5: a call that leaves unconnected_nodes at its default does not raise.
C5_UnconnectedNodesOptional ==
    unconnected_nodes = None => pc \notin { "TypeError", "ValueError", "RuntimeError" }

\* C6: a component with one node is placed at (x + w/2, y + h/2) of its box
\* (x, y, w, h) without a call of the component layout function; a single
\* unconnected node on the canvas with origin (0, 0) and scale (1, 1) ends at (1/2, 1/2).
C6_SingleNodeAtCentre ==
    /\ [][(pc = "place" /\ ii < Len(components) /\ Cardinality(components[ii + 1]) = 1) =>
             /\ layout_calls' = layout_calls
             /\ pc' = "place"
             /\ \A v \in components[ii + 1] :
                   LET b == bboxes[ii + 1]
                   IN  node_positions'[v] = << RAdd(b[1], RDiv(b[3], RI(2))),
                                               RAdd(b[2], RDiv(b[4], RI(2))) >>]_vars
    /\ [](( /\ pc = "done"
            /\ edge_list = << >>
            /\ unconnected_nodes = Some(<< 4 >>)
            /\ origin = << RI(0), RI(0) >>
            /\ scale = << RI(1), RI(1) >> )
          => node_positions[4] = << Rat(1, 2), Rat(1, 2) >>)

C6_Witness ==
    /\ pc = "done"
    /\ edge_list = << >>
    /\ unconnected_nodes = Some(<< 4 >>)
    /\ origin = << RI(0), RI(0) >>
    /\ scale = << RI(1), RI(1) >>
    /\ written = << {4} >>
    /\ layout_calls = {}
    /\ node_positions[4] = << Rat(1, 2), Rat(1, 2) >>

\* C9: every position returned by the layout engine lies in the frame of that
\* call, and every position returned by the composer lies in the canvas
\* [origin, origin + scale] of the composer's call.
C9_Containment ==
    /\ pc = "fr_done" =>
          \A v \in DOMAIN fr_result : IsWithinBBox(fr_result[v], Val(fr_origin), Val(fr_scale))
    /\ pc = "done" =>
          \A v \in DOMAIN node_positions : IsWithinBBox(node_positions[v], origin, scale)

====
